---------------------------- MODULE Spec2Model ----------------------------
(***************************************************************************)
(* Model of manim/mobject/types/opengl_surface.py: OpenGLSurface,          *)
(* OpenGLSurfaceGroup and OpenGLTexturedSurface.                           *)
(*                                                                         *)
(* Arrays are sequences; a numpy index i (0-based) is position i + 1.      *)
(* Real numbers are exact fixed-point integers: the integer n stands for   *)
(* n / Unit.  Unit is chosen so that every division the modelled code      *)
(* performs within the bounds is exact.  The fractions a and b of a        *)
(* partial reveal are numerators over FracDen.                             *)
(***************************************************************************)
EXTENDS Integers, Sequences, FiniteSets, TLC

VARIABLES
    constructed,        \* the surfaces whose constructor has returned
    resolution,         \* self.resolution, a pair <<nu, nv>>
    u_range,            \* self.u_range
    v_range,            \* self.v_range
    passed_uv_func,     \* self.passed_uv_func
    uv_surface,         \* OpenGLTexturedSurface.uv_surface
    submobjects,        \* children: the arguments of OpenGLSurfaceGroup, or added with add
    points,             \* self.points: base, du-nudged and dv-nudged rows
    triangle_indices,   \* self.triangle_indices, as rows of three
    im_coords,          \* OpenGLTexturedSurface.im_coords
    color,              \* the colour set_color left on each mobject
    last                \* the last call made and how it ended

vars == <<constructed, resolution, u_range, v_range, passed_uv_func, uv_surface,
          submobjects, points, triangle_indices, im_coords, color, last>>

----------------------------------------------------------------------------
(* Bounds of the model *)

\* largest nu or nv a constructor is given
MaxN == 3
\* largest nu or nv compute_triangle_indices is applied to on its own
MaxGrid == 7
\* a and b range over 0/FracDen .. FracDen/FracDen
FracDen == 4
\* how often a partial reveal is re-applied to its own output
MaxReapply == 1
\* the epsilon handed to the constructor is 1/EpsilonDen
EpsilonDen == 8
\* most colours handed to set_fill_by_value
MaxColors == 3

(* Program constants *)

\* resolution=None becomes (101, 101)
DefaultResolution == 101
\* the width of a row of im_coords
UVDim == 2

----------------------------------------------------------------------------
(* Arithmetic helpers *)

RECURSIVE Gcd(_, _)
Gcd(m, n) == IF n = 0 THEN m ELSE Gcd(n, m % n)

Abs(n) == IF n < 0 THEN -n ELSE n

RECURSIVE LcmUpTo(_)
LcmUpTo(n) == IF n <= 1 THEN 1
              ELSE LET l == LcmUpTo(n - 1) IN (l * n) \div Gcd(l, n)

RECURSIVE Pow(_, _)
Pow(x, n) == IF n = 0 THEN 1 ELSE x * Pow(x, n - 1)

Min(x, y) == IF x <= y THEN x ELSE y
Max(x, y) == IF x >= y THEN x ELSE y

\* The fixed-point value of 1.0.  linspace divides by nu - 1 or nv - 1, the
\* nudge by EpsilonDen, and each interpolate by FracDen; one partial reveal
\* nests at most two interpolations.
Unit == EpsilonDen * LcmUpTo(MaxN - 1) * Pow(FracDen, 2 * (MaxReapply + 1))

Epsilon == Unit \div EpsilonDen

None == <<>>

Surfaces == {"S", "X", "T", "TS", "G"}
TexturedSurfaces == {"T", "TS"}

\* the fractions a and b are drawn from
Fracs == 0 .. FracDen

----------------------------------------------------------------------------
(* OpenGLSurface.compute_triangle_indices *)

\* index_grid[r0 + i, c0 + j] for the cell-th cell (i, j) of the flattened
\* (nu-1) x (nv-1) slice that starts at row r0 and column c0
GridSlice(nu, nv, r0, c0, cell) ==
    (r0 + (cell \div (nv - 1))) * nv + (c0 + (cell % (nv - 1)))

\* a plausible slip: the top-right and bottom-left slices exchanged in the first triangle
StrideValueSwapped(nu, nv, k, cell) ==
    CASE k = 0 -> GridSlice(nu, nv, 0, 0, cell)
      [] k = 1 -> GridSlice(nu, nv, 0, 1, cell)
      [] k = 2 -> GridSlice(nu, nv, 1, 0, cell)
      [] k = 3 -> GridSlice(nu, nv, 0, 1, cell)
      [] k = 4 -> GridSlice(nu, nv, 1, 0, cell)
      [] k = 5 -> GridSlice(nu, nv, 1, 1, cell)

\* the value the strided assignment indices[k::6] = ... leaves at offset k of a cell
StrideValue(nu, nv, k, cell) ==
    CASE k = 0 -> GridSlice(nu, nv, 0, 0, cell)
      [] k = 1 -> GridSlice(nu, nv, 1, 0, cell)  \* Bottom left
      [] k = 2 -> GridSlice(nu, nv, 0, 1, cell)  \* Top right
      [] k = 3 -> GridSlice(nu, nv, 0, 1, cell)  \* Top right
      [] k = 4 -> GridSlice(nu, nv, 1, 0, cell)  \* Bottom left
      [] k = 5 -> GridSlice(nu, nv, 1, 1, cell)  \* Bottom right

\* The index buffer is kept as its rows of three, one row per triangle: flat
\* entry p (from 0) is vertex p % 3 of triangle p // 3, so that tri_is[k::3]
\* is column k.  Triangle t (from 0) holds offsets 3 * (t % 2) + k of cell t // 2.
Entry(tri_is, p) == tri_is[(p \div 3) + 1][(p % 3) + 1]

compute_triangle_indices(res) ==
    LET nu == res[1]
        nv == res[2]
    IN  IF nu = 0 \/ nv = 0
        THEN <<>>
        ELSE [t \in 1 .. 2 * (nu - 1) * (nv - 1) |->
                 [k \in 1 .. 3 |->
                     StrideValue(nu, nv, 3 * ((t - 1) % 2) + (k - 1), (t - 1) \div 2)]]


----------------------------------------------------------------------------
(* OpenGLSurface.init_points *)

\* np.linspace(start, stop, n)
linspace(start, stop, n) ==
    [i \in 1 .. n |-> IF n = 1 THEN start
                      ELSE start + ((i - 1) * (stop - start)) \div (n - 1)]

\* the parametric functions a surface is built from: None is the default
\* (u, v, 0.0) of OpenGLSurface.uv_func, "tilt" the plane (u, v, v - u)

uv_func(f, u, v) == IF f = "None" THEN <<u, v, 0>> ELSE <<u, v, v - u>>

\* one of the three point lists: uv_func over the grid nudged by (du, dv),
\* reshaped to (nu * nv, dim), u the outer axis
point_list(f, ur, vr, res, du, dv) ==
    LET nu == res[1]
        nv == res[2]
        us == linspace(ur[1], ur[2], nu)
        vs == linspace(vr[1], vr[2], nv)
    IN  [p \in 1 .. nu * nv |->
            uv_func(f, us[((p - 1) \div nv) + 1] + du, vs[((p - 1) % nv) + 1] + dv)]

\* np.apply_along_axis(..., 2, uv_grid) needs a three-dimensional grid: with
\* nu = 0 the grid is np.array([]), with nv = 0 it has shape (nu, 0)
init_points_raises(res) == res[1] = 0 \/ res[2] = 0

init_points(f, ur, vr, res) ==
    point_list(f, ur, vr, res, 0, 0)
        \o point_list(f, ur, vr, res, Epsilon, 0)
        \o point_list(f, ur, vr, res, 0, Epsilon)

\* OpenGLTexturedSurface.init_points: [u, v] for u in linspace(0, 1, nu)
\* for v in linspace(1, 0, nv)
init_im_coords(res) ==
    LET nu == res[1]
        nv == res[2]
        us == linspace(0, Unit, nu)
        vs == linspace(Unit, 0, nv)
    IN  [p \in 1 .. nu * nv |-> <<us[((p - 1) \div nv) + 1], vs[((p - 1) % nv) + 1]>>]

----------------------------------------------------------------------------
(* utils.bezier: integer_interpolate and interpolate *)

\* index = floor(lo + frac * (hi - lo)) clamped to [lo, hi], with the residue
\* fraction in [0, 1); frac = an / FracDen is clamped to [0, 1].  The residue
\* is a numerator over FracDen.
integer_interpolate(lo, hi, an) ==
    LET frac  == Max(0, Min(FracDen, an))
        value == lo * FracDen + frac * (hi - lo)
        index == Max(lo, Min(hi, value \div FracDen))
    IN  [index |-> index, residue |-> value % FracDen]

\* (1 - alpha) * start + alpha * end, alpha = rn / FracDen
interpolate(start, end, rn) == ((FracDen - rn) * start + rn * end) \div FracDen

\* interpolate applied to two rows of an array, element by element
interpolate_row(p, q, rn) == [c \in DOMAIN p |-> interpolate(p[c], q[c], rn)]

----------------------------------------------------------------------------
(* OpenGLSurface.get_partial_points_array *)

\* element (i, j) of a flat array viewed as an (nu, nv, w) grid
At(arr, nv, i, j) == arr[i * nv + j + 1]

\* the index of flat position p along the axis
AxisIndex(nv, axis, p) == IF axis = 0 THEN (p - 1) \div nv ELSE (p - 1) % nv

\* element p's counterpart in row/column idx along the axis
Along(arr, nv, axis, p, idx) ==
    IF axis = 0 THEN At(arr, nv, idx, (p - 1) % nv)
    ELSE At(arr, nv, (p - 1) \div nv, idx)

\* a plausible slip: the rows before the lower index are set to row lower_index itself
write_lower_no_residue(arr, nv, axis, li, lr) ==
    [p \in DOMAIN arr |->
        IF AxisIndex(nv, axis, p) < li
        THEN Along(arr, nv, axis, p, li)
        ELSE arr[p]]

\* points[:lower_index] = interpolate(points[lower_index], points[lower_index + 1], residue)
write_lower(arr, nv, axis, li, lr) ==
    [p \in DOMAIN arr |->
        IF AxisIndex(nv, axis, p) < li
        THEN interpolate_row(Along(arr, nv, axis, p, li), Along(arr, nv, axis, p, li + 1), lr)
        ELSE arr[p]]

\* points[upper_index + 1:] = interpolate(points[upper_index], points[upper_index + 1], residue)
write_upper(arr, nv, axis, ui, ur) ==
    [p \in DOMAIN arr |->
        IF AxisIndex(nv, axis, p) > ui
        THEN interpolate_row(Along(arr, nv, axis, p, ui), Along(arr, nv, axis, p, ui + 1), ur)
        ELSE arr[p]]

\* The outcome of get_partial_points_array(points, a, b, resolution, axis):
\* status "ok" and the array returned, or the exception raised and the array
\* as the in-place writes left it.
get_partial_points_array(arr, a, b, res, axis) ==
    LET nu        == res[1]
        nv        == res[2]
        max_index == res[axis + 1] - 1
        lower     == integer_interpolate(0, max_index, a)
        upper     == integer_interpolate(0, max_index, b)
        low       == write_lower(arr, nv, axis, lower.index, lower.residue)
    IN  IF Len(arr) = 0 THEN [status |-> "ok", value |-> arr]
        ELSE IF Len(arr) # nu * nv THEN [status |-> "ValueError", value |-> arr]
        ELSE IF lower.index + 1 > max_index THEN [status |-> "IndexError", value |-> arr]
        ELSE IF upper.index + 1 > max_index THEN [status |-> "IndexError", value |-> low]
        ELSE [status |-> "ok", value |-> write_upper(low, nv, axis, upper.index, upper.residue)]

----------------------------------------------------------------------------
(* OpenGLSurface.pointwise_become_partial *)

SubSeqFrom(s, m) == SubSeq(s, m, Len(s))

\* get_surface_points_and_nudged_points: points[:k], points[k:2k], points[2k:]
get_surface_points_and_nudged_points(pts) ==
    LET k == Len(pts) \div 3
    IN  <<SubSeq(pts, 1, k), SubSeq(pts, k + 1, 2 * k), SubSeqFrom(pts, 2 * k + 1)>>

\* a <= 0 and b >= 1
fast_path(a, b) == a <= 0 /\ b >= FracDen

\* a plausible slip: the slices passed without .copy() are views of
\* smobject.points, and the writes land in them
source_after_no_copy(src_points, outs) ==
    outs[1].value \o outs[2].value \o outs[3].value

\* What the in-place writes of get_partial_points_array leave in smobject's
\* buffer: each of its three slices is passed as arr.copy(), so nothing
source_after(src_points, outs) == src_points

\* a plausible slip: the nudged arrays stacked in the wrong order
vstack_swapped(outs) == outs[1].value \o outs[3].value \o outs[2].value

\* np.vstack of the three arrays returned
vstack(outs) == outs[1].value \o outs[2].value \o outs[3].value

\* The outcome of self.pointwise_become_partial(smobject, a, b, axis) for the
\* point buffers: the status, the new self.points (value) and what
\* smobject.points holds afterwards when smobject is another object (source).
pointwise_become_partial(self_points, src_points, src_res, a, b, axis) ==
    LET parts == get_surface_points_and_nudged_points(src_points)
        outs  == [k \in 1 .. 3 |-> get_partial_points_array(parts[k], a, b, src_res, axis)]
        bad   == {k \in 1 .. 3 : outs[k].status # "ok"}
        first == CHOOSE k \in bad : \A m \in bad : k <= m
        \* the list comprehension stops at the first array that raises
        done  == [k \in 1 .. 3 |-> IF k <= first THEN outs[k]
                                   ELSE [status |-> "ok", value |-> parts[k]]]
    IN  IF fast_path(a, b)
        THEN [status |-> "ok", value |-> src_points, source |-> src_points]
        ELSE IF bad # {}
        THEN [status |-> outs[first].status, value |-> self_points,
              source |-> source_after(src_points, done)]
        ELSE [status |-> "ok", value |-> vstack(outs),
              source |-> source_after(src_points, outs)]

----------------------------------------------------------------------------
(* OpenGLSurface.sort_faces_back_to_front *)

\* np.dot of a point and the view direction
Dot(p, vect) == p[1] * vect[1] + p[2] * vect[2] + p[3] * vect[3]

\* a plausible slip: the key taken from the triangle's second vertex
index_dot_second_vertex(tri_is, pts, vect, index) ==
    Dot(pts[Entry(tri_is, 3 * index + 1) + 1], vect)

\* index_dot(index) = np.dot(points[tri_is[3 * index]], vect)
index_dot(tri_is, pts, vect, index) == Dot(pts[Entry(tri_is, 3 * index) + 1], vect)

\* index_dot raises IndexError when a first vertex is no row of points
sort_raises(tri_is, pts) ==
    \E index \in 0 .. Len(tri_is) - 1 : Entry(tri_is, 3 * index) >= Len(pts)

\* list.sort is stable: x goes behind every element whose key is not larger
RECURSIVE insert_sorted(_, _, _, _, _)
insert_sorted(sorted, x, tri_is, pts, vect) ==
    IF sorted = <<>> THEN <<x>>
    ELSE IF index_dot(tri_is, pts, vect, sorted[Len(sorted)]) <= index_dot(tri_is, pts, vect, x)
         THEN Append(sorted, x)
         ELSE Append(insert_sorted(SubSeq(sorted, 1, Len(sorted) - 1), x, tri_is, pts, vect),
                     sorted[Len(sorted)])

\* indices = list(range(n)); indices.sort(key=index_dot), the first m of them
RECURSIVE sorted_indices(_, _, _, _)
sorted_indices(m, tri_is, pts, vect) ==
    IF m = 0 THEN <<>>
    ELSE insert_sorted(sorted_indices(m - 1, tri_is, pts, vect), m - 1, tri_is, pts, vect)

\* for k in range(3): tri_is[k::3] = tri_is[k::3][indices]
sort_faces_back_to_front(tri_is, pts, vect) ==
    LET n       == Len(tri_is)
        indices == sorted_indices(n, tri_is, pts, vect)
    IN  [t \in 1 .. n |->
            [k \in 1 .. 3 |-> Entry(tri_is, 3 * indices[t] + (k - 1))]]

\* the view directions a sort is given; OUT is the default
OUT == <<0, 0, 1>>
Vects == {OUT, <<1, 0, -1>>}

----------------------------------------------------------------------------
(* Constructors *)

\* OpenGLSurface.__init__: an argument left None takes its default
default_range(arg) == IF arg # None THEN arg ELSE <<0, Unit>>
default_resolution(arg) == IF arg # None THEN arg ELSE <<DefaultResolution, DefaultResolution>>

\* OpenGLSurfaceGroup.__init__ sets self.resolution, then calls
\* super().__init__(uv_func=None, **kwargs) without the resolution argument:
\* the value OpenGLSurface.__init__ assigns is the one that stays
group_resolution(arg) == default_resolution(None)

\* OpenGLTexturedSurface.__init__ sets u_range, v_range and resolution from
\* uv_surface, then calls super().__init__(texture_paths=..., **kwargs):
\* OpenGLSurface.__init__ assigns all three again from its own arguments
textured_resolution(base_res, arg) == default_resolution(arg)
textured_range(base_range, arg) == default_range(arg)

\* prefered_creation_axis=1; an axis argument is None or <<axis>>
prefered_creation_axis == 1
resolve_axis(arg) == IF arg = None THEN prefered_creation_axis ELSE arg[1]
AxisArgs == {None, <<0>>}

\* a colour: interpolate_color(from, to, num / den); a plain colour is its own mix
Pure(c) == [from |-> c, to |-> c, num |-> 0, den |-> 1]

NoCall == [op |-> "none", self |-> "none", status |-> "ok"]

\* the state before any constructor has run
InitEmpty ==
    /\ constructed = {}
    /\ resolution = [o \in Surfaces |-> <<0, 0>>]
    /\ u_range = [o \in Surfaces |-> <<0, 0>>]
    /\ v_range = [o \in Surfaces |-> <<0, 0>>]
    /\ passed_uv_func = [o \in Surfaces |-> "None"]
    /\ uv_surface = [o \in Surfaces |-> "none"]
    /\ submobjects = [o \in Surfaces |-> <<>>]
    /\ points = [o \in Surfaces |-> <<>>]
    /\ triangle_indices = [o \in Surfaces |-> <<>>]
    /\ im_coords = [o \in Surfaces |-> <<>>]
    /\ color = [o \in Surfaces |-> Pure("GREY")]
    /\ last = NoCall

\* OpenGLSurface(uv_func=f, u_range=ur, v_range=vr, resolution=res)
ConstructSurface(o, f, ur, vr, res) ==
    /\ o \notin constructed
    /\ IF init_points_raises(default_resolution(res))
       THEN /\ last' = [op |-> "OpenGLSurface", self |-> o, status |-> "AxisError"]
            /\ UNCHANGED <<constructed, resolution, u_range, v_range, passed_uv_func,
                           uv_surface, submobjects, points, triangle_indices, im_coords, color>>
       ELSE /\ constructed' = constructed \cup {o}
            /\ passed_uv_func' = [passed_uv_func EXCEPT ![o] = f]
            /\ u_range' = [u_range EXCEPT ![o] = default_range(ur)]
            /\ v_range' = [v_range EXCEPT ![o] = default_range(vr)]
            /\ resolution' = [resolution EXCEPT ![o] = default_resolution(res)]
            /\ points' = [points EXCEPT ![o] =
                   init_points(f, default_range(ur), default_range(vr), default_resolution(res))]
            /\ triangle_indices' = [triangle_indices EXCEPT ![o] =
                   compute_triangle_indices(default_resolution(res))]
            /\ last' = [op |-> "OpenGLSurface", self |-> o, status |-> "ok"]
            /\ UNCHANGED <<uv_surface, submobjects, im_coords, color>>

\* OpenGLSurfaceGroup(children..., resolution=res): init_points does nothing
ConstructGroup(o, children, res) ==
    /\ o \notin constructed
    /\ \A k \in DOMAIN children : children[k] \in constructed
    /\ constructed' = constructed \cup {o}
    /\ passed_uv_func' = [passed_uv_func EXCEPT ![o] = "None"]
    /\ u_range' = [u_range EXCEPT ![o] = default_range(None)]
    /\ v_range' = [v_range EXCEPT ![o] = default_range(None)]
    /\ resolution' = [resolution EXCEPT ![o] = group_resolution(res)]
    /\ points' = [points EXCEPT ![o] = <<>>]
    /\ triangle_indices' = [triangle_indices EXCEPT ![o] =
           compute_triangle_indices(group_resolution(res))]
    /\ submobjects' = [submobjects EXCEPT ![o] = children]
    /\ last' = [op |-> "OpenGLSurfaceGroup", self |-> o, status |-> "ok", resolution |-> res]
    /\ UNCHANGED <<uv_surface, im_coords, color>>

\* OpenGLTexturedSurface(uv_surface, image_file), no resolution or range
\* keyword: init_points copies the base surface's points and lays the UV grid
\* over the base surface's resolution
ConstructTextured(o, base) ==
    /\ o \notin constructed
    /\ base \in constructed
    /\ constructed' = constructed \cup {o}
    /\ uv_surface' = [uv_surface EXCEPT ![o] = base]
    /\ passed_uv_func' = [passed_uv_func EXCEPT ![o] = passed_uv_func[base]]
    /\ u_range' = [u_range EXCEPT ![o] = textured_range(u_range[base], None)]
    /\ v_range' = [v_range EXCEPT ![o] = textured_range(v_range[base], None)]
    /\ resolution' = [resolution EXCEPT ![o] = textured_resolution(resolution[base], None)]
    /\ points' = [points EXCEPT ![o] = points[base]]
    /\ im_coords' = [im_coords EXCEPT ![o] = init_im_coords(resolution[base])]
    /\ triangle_indices' = [triangle_indices EXCEPT ![o] =
           compute_triangle_indices(textured_resolution(resolution[base], None))]
    /\ last' = [op |-> "OpenGLTexturedSurface", self |-> o, status |-> "ok"]
    /\ UNCHANGED <<submobjects, color>>

----------------------------------------------------------------------------
(* compute_triangle_indices on its own: the resolution is the input *)

GridResolutions == (0 .. MaxGrid) \X (0 .. MaxGrid)

InitTriangles ==
    /\ constructed = {}
    /\ resolution \in {[o \in Surfaces |-> IF o = "S" THEN r ELSE <<0, 0>>] :
                       r \in GridResolutions}
    /\ u_range = [o \in Surfaces |-> <<0, 0>>]
    /\ v_range = [o \in Surfaces |-> <<0, 0>>]
    /\ passed_uv_func = [o \in Surfaces |-> "None"]
    /\ uv_surface = [o \in Surfaces |-> "none"]
    /\ submobjects = [o \in Surfaces |-> <<>>]
    /\ points = [o \in Surfaces |-> <<>>]
    /\ triangle_indices = [o \in Surfaces |-> <<>>]
    /\ im_coords = [o \in Surfaces |-> <<>>]
    /\ color = [o \in Surfaces |-> Pure("GREY")]
    /\ last = NoCall

ComputeTriangleIndices(o) ==
    /\ last.op = "none"
    /\ triangle_indices' = [triangle_indices EXCEPT ![o] = compute_triangle_indices(resolution[o])]
    /\ last' = [op |-> "compute_triangle_indices", self |-> o, status |-> "ok"]
    /\ UNCHANGED <<constructed, resolution, u_range, v_range, passed_uv_func, uv_surface,
                   submobjects, points, im_coords, color>>

NextTriangles == ComputeTriangleIndices("S")

SpecTriangles == InitTriangles /\ [][NextTriangles]_vars


\* C1: compute_triangle_indices leaves an empty buffer when nu = 0 or nv = 0,
\* and otherwise 6 * (nu - 1) * (nv - 1) entries in which the cell (i, j),
\* cells taken row by row, holds (TL, BL, TR, TR, BL, BR) with TL = i * nv + j,
\* BL = TL + nv, TR = TL + 1 and BR = TL + nv + 1.
TriangleIndicesLaw ==
    last.op = "compute_triangle_indices" =>
        LET nu == resolution[last.self][1]
            nv == resolution[last.self][2]
            t  == triangle_indices[last.self]
        IN  IF nu = 0 \/ nv = 0
            THEN t = <<>>
            ELSE /\ 3 * Len(t) = 6 * (nu - 1) * (nv - 1)
                 /\ \A i \in 0 .. nu - 2 : \A j \in 0 .. nv - 2 :
                        LET c  == i * (nv - 1) + j
                            TL == i * nv + j
                            BL == (i + 1) * nv + j
                            TR == i * nv + j + 1
                            BR == (i + 1) * nv + j + 1
                        IN  [q \in 1 .. 6 |-> Entry(t, 6 * c + q - 1)]
                                = <<TL, BL, TR, TR, BL, BR>>

\* a 3 x 4 grid has been triangulated: six cells, 36 entries
TriangleIndicesWitness ==
    /\ last.op = "compute_triangle_indices"
    /\ resolution["S"] = <<3, 4>>
    /\ 3 * Len(triangle_indices["S"]) = 36
    /\ Entry(triangle_indices["S"], 35) = 11

----------------------------------------------------------------------------
(* Calls on constructed surfaces *)

\* the record of a pointwise_become_partial call: its arguments, how it ended,
\* how many times in a row it has been applied to its own output, and the
\* buffers of self and of the source as they were when the call was made
RevealCall(self, src, a, b, axis, axisArg, status) ==
    LET again == /\ last.op = "pointwise_become_partial"
                 /\ last.status = "ok"
                 /\ last.self = self
                 /\ src = self
                 /\ last.a = a /\ last.b = b /\ last.axis = axis
    IN  [op |-> "pointwise_become_partial", self |-> self, src |-> src,
         a |-> a, b |-> b, axis |-> axis, axisArg |-> axisArg, status |-> status,
         times |-> IF again THEN last.times + 1 ELSE 1,
         src_points |-> points[src], self_points |-> points[self],
         src_im_coords |-> im_coords[src], self_im_coords |-> im_coords[self]]

\* self.pointwise_become_partial(src, a, b, axis) of OpenGLSurface
PointwiseBecomePartial(self, src, a, b, axisArg) ==
    LET axis == resolve_axis(axisArg)
        out  == pointwise_become_partial(points[self], points[src], resolution[src], a, b, axis)
    IN  /\ {self, src} \subseteq constructed
        /\ points' = [o \in Surfaces |-> IF o = self THEN out.value
                                         ELSE IF o = src THEN out.source
                                         ELSE points[o]]
        /\ last' = RevealCall(self, src, a, b, axis, axisArg, out.status)
        /\ UNCHANGED <<constructed, resolution, u_range, v_range, passed_uv_func, uv_surface,
                       submobjects, triangle_indices, im_coords, color>>

\* self.sort_faces_back_to_front(vect)
SortFaces(self, vect) ==
    /\ self \in constructed
    /\ IF sort_raises(triangle_indices[self], points[self])
       THEN /\ last' = [op |-> "sort_faces_back_to_front", self |-> self, vect |-> vect,
                        status |-> "IndexError"]
            /\ UNCHANGED triangle_indices
       ELSE /\ triangle_indices' = [triangle_indices EXCEPT ![self] =
                   sort_faces_back_to_front(triangle_indices[self], points[self], vect)]
            /\ last' = [op |-> "sort_faces_back_to_front", self |-> self, vect |-> vect,
                        status |-> "ok", before |-> triangle_indices[self]]
    /\ UNCHANGED <<constructed, resolution, u_range, v_range, passed_uv_func, uv_surface,
                   submobjects, points, im_coords, color>>

----------------------------------------------------------------------------
(* Plain surfaces: a source S and a surface X of the same resolution that is
   partially revealed from it *)

Resolutions == (0 .. MaxN) \X (0 .. MaxN)

\* the (uv_func, u_range) pairs S is built from
SourceInputs == {<<"None", None>>, <<"tilt", <<-Unit, Unit>>>>}

ConstructSource ==
    \E res \in Resolutions : \E fu \in SourceInputs :
        ConstructSurface("S", fu[1], fu[2], None, res)

ConstructTarget ==
    /\ "S" \in constructed
    /\ ConstructSurface("X", "None", None, None, resolution["S"])

\* X is revealed from S once, right after it was built: what a reveal from S
\* leaves depends on S alone
PartialFromSource ==
    /\ last.op = "OpenGLSurface"
    /\ last.self = "X"
    /\ \E a \in Fracs : \E b \in Fracs : \E axisArg \in AxisArgs :
           PointwiseBecomePartial("X", "S", a, b, axisArg)

\* the same reveal applied again, to its own output
PartialAgain ==
    /\ last.op = "pointwise_become_partial"
    /\ last.status = "ok"
    /\ last.self = "X"
    /\ last.times <= MaxReapply
    /\ PointwiseBecomePartial("X", "X", last.a, last.b, last.axisArg)

SortTarget == \E vect \in Vects : SortFaces("X", vect)

Next == ConstructSource \/ ConstructTarget \/ PartialFromSource \/ PartialAgain \/ SortTarget

Spec == InitEmpty /\ [][Next]_vars


----------------------------------------------------------------------------
(* Partial reveal: what a call that returned left in self.points *)

RevealReturned == last.op = "pointwise_become_partial" /\ last.status = "ok"

\* lower_index, upper_index and their residues for the last reveal
LowerOf(call) == integer_interpolate(0, resolution[call.src][call.axis + 1] - 1, call.a)
UpperOf(call) == integer_interpolate(0, resolution[call.src][call.axis + 1] - 1, call.b)

\* row/column idx along the axis of the source array, at the place of element p
SourceLine(src_arr, nv, axis, p, idx) == Along(src_arr, nv, axis, p, idx)

\* The three clauses of the claim for one of the three point arrays: new is
\* the array of self after the call, old the source's array before it.
RevealClauses(new, old, nv, axis, lower, upper) ==
    /\ Len(new) = Len(old)
    /\ \A p \in DOMAIN old :
        LET idx == AxisIndex(nv, axis, p)
        IN  /\ idx < lower.index =>
                   new[p] = interpolate_row(SourceLine(old, nv, axis, p, lower.index),
                                            SourceLine(old, nv, axis, p, lower.index + 1),
                                            lower.residue)
            /\ idx > upper.index =>
                   new[p] = interpolate_row(SourceLine(old, nv, axis, p, upper.index),
                                            SourceLine(old, nv, axis, p, upper.index + 1),
                                            upper.residue)
            /\ (lower.index <= idx /\ idx <= upper.index) => new[p] = old[p]

RevealMatchesClauses ==
    LET new == get_surface_points_and_nudged_points(points[last.self])
        old == get_surface_points_and_nudged_points(last.src_points)
    IN  \A k \in 1 .. 3 :
            RevealClauses(new[k], old[k], resolution[last.src][2], last.axis,
                          LowerOf(last), UpperOf(last))

----------------------------------------------------------------------------
(* Depth sort: what sort_faces_back_to_front left in the index buffer *)

SortReturned == last.op = "sort_faces_back_to_front" /\ last.status = "ok"

\* the triangles of an index buffer, as (i0, i1, i2) triples in buffer order
Triangles(t) == [i \in 1 .. Len(t) |-> <<Entry(t, 3 * i - 3), Entry(t, 3 * i - 2), Entry(t, 3 * i - 1)>>]

\* dot(points[first vertex], vect)
KeyOf(tri, pts, vect) == Dot(pts[tri[1] + 1], vect)

RECURSIVE WithKey(_, _, _, _)
WithKey(tris, pts, vect, key) ==
    IF tris = <<>> THEN <<>>
    ELSE IF KeyOf(Head(tris), pts, vect) = key
         THEN <<Head(tris)>> \o WithKey(Tail(tris), pts, vect, key)
         ELSE WithKey(Tail(tris), pts, vect, key)

Occurrences(tris, tri) == Cardinality({i \in DOMAIN tris : tris[i] = tri})

\* C4: the sort permutes whole triangles (same multiset of triples, each with
\* its vertex order), leaves the keys non-decreasing along the buffer, and
\* keeps triangles of equal key in the order they had before the call.
SortFacesLaw ==
    SortReturned =>
        LET before == Triangles(last.before)
            after  == Triangles(triangle_indices[last.self])
            pts    == points[last.self]
            keys   == {KeyOf(before[i], pts, last.vect) : i \in DOMAIN before}
        IN  /\ Len(triangle_indices[last.self]) = Len(last.before)
            /\ \A i \in DOMAIN before :
                   Occurrences(after, before[i]) = Occurrences(before, before[i])
            /\ \A i \in 1 .. Len(after) - 1 :
                   KeyOf(after[i], pts, last.vect) <= KeyOf(after[i + 1], pts, last.vect)
            /\ \A key \in keys :
                   WithKey(after, pts, last.vect, key) = WithKey(before, pts, last.vect, key)

\* a sort moved triangles while two triangles with different vertices had the same key
SortFacesWitness ==
    /\ SortReturned
    /\ triangle_indices[last.self] # last.before
    /\ \E i, j \in DOMAIN Triangles(last.before) :
           /\ i < j
           /\ Triangles(last.before)[i] # Triangles(last.before)[j]
           /\ KeyOf(Triangles(last.before)[i], points[last.self], last.vect)
                  = KeyOf(Triangles(last.before)[j], points[last.self], last.vect)


----------------------------------------------------------------------------
(* OpenGLTexturedSurface.pointwise_become_partial *)

\* axis=1 is the default of the textured surface's method
textured_axis(arg) == IF arg = None THEN 1 ELSE arg[1]

\* im_coords[:] = tsmobject.im_coords: the values are copied into self's own
\* array, which needs as many rows (or one row to broadcast)
assign_im_coords(own, theirs) ==
    IF Len(theirs) = Len(own) THEN [status |-> "ok", value |-> theirs]
    ELSE IF Len(theirs) = 1 /\ Len(theirs[1]) = UVDim
         THEN [status |-> "ok", value |-> [p \in DOMAIN own |-> theirs[1]]]
    ELSE [status |-> "ValueError", value |-> own]

\* The outcome of the textured method: the status, self.points and
\* self.im_coords afterwards, and the source's points.
textured_pointwise_become_partial(self_points, self_im, src_points, src_im, src_res, a, b, axis) ==
    LET sup    == pointwise_become_partial(self_points, src_points, src_res, a, b, axis)
        copied == assign_im_coords(self_im, src_im)
        part   == get_partial_points_array(copied.value, a, b, src_res, axis)
    IN  IF sup.status # "ok"
        THEN [status |-> sup.status, points |-> sup.value, im_coords |-> self_im,
              source |-> sup.source]
        ELSE IF copied.status # "ok"
        THEN [status |-> copied.status, points |-> sup.value, im_coords |-> self_im,
              source |-> sup.source]
        ELSE IF fast_path(a, b)
        THEN [status |-> "ok", points |-> sup.value, im_coords |-> copied.value,
              source |-> sup.source]
        ELSE [status |-> part.status, points |-> sup.value, im_coords |-> part.value,
              source |-> sup.source]

TexturedPartial(self, src, a, b, axisArg) ==
    LET axis == textured_axis(axisArg)
        out  == textured_pointwise_become_partial(points[self], im_coords[self], points[src],
                    im_coords[src], resolution[src], a, b, axis)
    IN  /\ {self, src} \subseteq constructed
        /\ points' = [o \in Surfaces |-> IF o = self THEN out.points
                                         ELSE IF o = src THEN out.source
                                         ELSE points[o]]
        /\ im_coords' = [im_coords EXCEPT ![self] = out.im_coords]
        /\ last' = RevealCall(self, src, a, b, axis, axisArg, out.status)
        /\ UNCHANGED <<constructed, resolution, u_range, v_range, passed_uv_func, uv_surface,
                       submobjects, triangle_indices, color>>

----------------------------------------------------------------------------
(* A scene with every kind of surface: S and X as before, and then either
   the textured surfaces T on S and TS on X, or the group G; then reveals
   and sorts *)

\* the (children, resolution) arguments the group is built from
GroupInputs == {<<<<"S", "X">>, None>>, <<<<>>, None>>, <<<<"S">>, <<2, 2>>>>}

ConstructT ==
    /\ last.op = "OpenGLSurface"
    /\ last.self = "X"
    /\ ConstructTextured("T", "S")

ConstructTS == "T" \in constructed /\ ConstructTextured("TS", "X")

\* the last surface of the scene without the group has just been built
TexturedBuilt == last.op = "OpenGLTexturedSurface" /\ last.self = "TS"

ConstructG ==
    /\ last.op = "OpenGLSurface"
    /\ last.self = "X"
    /\ \E g \in GroupInputs : ConstructGroup("G", g[1], g[2])

GroupBuilt == last.op = "OpenGLSurfaceGroup"

RevealTextured ==
    /\ TexturedBuilt
    /\ \E a \in Fracs : \E b \in Fracs : \E axisArg \in AxisArgs :
           TexturedPartial("T", "TS", a, b, axisArg)

RevealGroup ==
    /\ GroupBuilt
    /\ \E a \in Fracs : \E b \in Fracs : PointwiseBecomePartial("G", "G", a, b, None)

SortAny ==
    /\ TexturedBuilt \/ last.op \in {"OpenGLSurfaceGroup", "sort_faces_back_to_front"}
    /\ \E o \in {"S", "T", "G"} : \E vect \in Vects : SortFaces(o, vect)

NextTextured ==
    \/ ConstructSource
    \/ ConstructTarget
    \/ ConstructT
    \/ ConstructTS
    \/ ConstructG
    \/ RevealTextured
    \/ RevealGroup
    \/ SortAny

SpecTextured == InitEmpty /\ [][NextTextured]_vars

\* the scene without the group: X revealed from S, or T from TS
NextReveal ==
    \/ ConstructSource
    \/ ConstructTarget
    \/ ConstructT
    \/ ConstructTS
    \/ PartialFromSource
    \/ RevealTextured

SpecReveal == InitEmpty /\ [][NextReveal]_vars

TexturedMatchesBase ==
    (last.op = "OpenGLTexturedSurface" /\ last.status = "ok") =>
        LET base == uv_surface[last.self]
        IN  /\ resolution[last.self] = resolution[base]
            /\ u_range[last.self] = u_range[base]
            /\ v_range[last.self] = v_range[base]
            /\ triangle_indices[last.self] = compute_triangle_indices(resolution[base])

\* C6 as stated: T.pointwise_become_partial(TS, a, b, axis) returns and leaves
\* in T's UV array the partial reveal of TS's UV array over the base
\* surface's (nu, nv) grid, TS's UV array itself when a <= 0 and b >= 1.
TexturedRevealKeepsUV ==
    (last.op = "pointwise_become_partial" /\ last.self \in TexturedSurfaces) =>
        /\ last.status = "ok"
        /\ IF last.a <= 0 /\ last.b >= FracDen
           THEN im_coords[last.self] = last.src_im_coords
           ELSE im_coords[last.self] =
                    get_partial_points_array(last.src_im_coords, last.a, last.b,
                        resolution[uv_surface[last.src]], last.axis).value

\* C7 as stated: the index buffer of every surface has 6 * (nu - 1) * (nv - 1)
\* entries (none when nu = 0 or nv = 0), each an index into the first third
\* of the surface's point buffer.
IndexBufferFitsPoints ==
    \A o \in constructed :
        LET nu == resolution[o][1]
            nv == resolution[o][2]
            t  == triangle_indices[o]
        IN  /\ 3 * Len(t) = IF nu = 0 \/ nv = 0 THEN 0 ELSE 6 * (nu - 1) * (nv - 1)
            /\ \A p \in 0 .. 3 * Len(t) - 1 :
                   0 <= Entry(t, p) /\ Entry(t, p) < Len(points[o]) \div 3

\* C8 as stated: a group built without a resolution argument has resolution
\* (0, 0), no points and no triangle indices.
GroupHasNoGeometry ==
    (last.op = "OpenGLSurfaceGroup" /\ last.resolution = None) =>
        /\ resolution[last.self] = <<0, 0>>
        /\ points[last.self] = <<>>
        /\ triangle_indices[last.self] = <<>>


----------------------------------------------------------------------------
(* OpenGLSurface.set_fill_by_value *)

\* Scalars (pivots, z values, the z range) are integers.  ZScale makes the
\* spacing (pivot_max - pivot_min) / (len(colors) - 1) of generated pivots
\* an integer for every number of colours within the bound.
ZScale == LcmUpTo(MaxColors - 1)

Palette == <<"RED", "YELLOW", "GREEN", "BLUE">>

\* the z ranges of the axes, the values explicit pivots are taken from, and
\* the z values a mesh element is measured at
ZRanges == {<<-2 * ZScale, 2 * ZScale>>, <<0, ZScale>>}
PivotValues == {-ZScale - 1, 0, 1, ZScale + 2}
ZValues == {-2 * ZScale - 1, -2 * ZScale, -1, 0, 1, ZScale, 2 * ZScale, 2 * ZScale + 1}

\* np.arange(start, stop, step) for a positive step: start + k * step < stop
RECURSIVE arange(_, _, _)
arange(start, stop, step) ==
    IF start >= stop THEN <<>> ELSE <<start>> \o arange(start + step, stop, step)

\* a plausible slip: the stop of the range is pivot_max itself, which arange leaves out
generated_pivots_short(z_range, n) ==
    LET pivot_min       == z_range[1]
        pivot_max       == z_range[2]
        pivot_frequency == (pivot_max - pivot_min) \div (n - 1)
    IN  arange(pivot_min, pivot_max, pivot_frequency)

\* pivots when the colours come without them: np.arange(pivot_min,
\* pivot_max + pivot_frequency, pivot_frequency)
generated_pivots(z_range, n) ==
    LET pivot_min       == z_range[1]
        pivot_max       == z_range[2]
        pivot_frequency == (pivot_max - pivot_min) \div (n - 1)
    IN  arange(pivot_min, pivot_max + pivot_frequency, pivot_frequency)

\* colors is a list of (colour, pivot) tuples, or a list of colours
fill_colors(arg) == IF arg.tuples THEN [k \in DOMAIN arg.colors |-> arg.colors[k][1]]
                    ELSE arg.colors
fill_pivots(arg, z_range) ==
    IF arg.tuples THEN [k \in DOMAIN arg.colors |-> arg.colors[k][2]]
    ELSE generated_pivots(z_range, Len(arg.colors))

\* seq[k] with Python's indices: 0-based, negative ones from the end
PyIndex(seq, k) == IF k < 0 THEN seq[Len(seq) + k + 1] ELSE seq[k + 1]

\* the first index i of enumerate(pivots), from i on, with pivot > z_value; -1 when none
RECURSIVE first_above(_, _, _)
first_above(pivots, z_value, i) ==
    IF i >= Len(pivots) THEN -1
    ELSE IF PyIndex(pivots, i) > z_value THEN i
    ELSE first_above(pivots, z_value, i + 1)

\* interpolate_color(c1, c2, min(num / den, 1)), the ratio in lowest terms
interpolate_color(c1, c2, num, den) ==
    LET n == IF num > den THEN den ELSE num
        g == Gcd(Abs(n), den)
    IN  [from |-> c1, to |-> c2, num |-> n \div g, den |-> den \div g]

\* mob.get_family(recurse): mob, then the families of its submobjects
RECURSIVE get_family(_)
get_family(mob) ==
    LET subs == submobjects[mob]
        F[k \in 0 .. Len(subs)] == IF k = 0 THEN <<mob>> ELSE F[k - 1] \o get_family(subs[k])
    IN  F[Len(subs)]

family_members_with_points(mob) ==
    SelectSeq(get_family(mob), LAMBDA m : Len(points[m]) > 0)

\* mob.set_color(c, recurse) on the colours col
set_color(col, mob, c, recurse) ==
    LET fam == IF recurse THEN get_family(mob) ELSE <<mob>>
    IN  [o \in Surfaces |-> IF \E k \in DOMAIN fam : fam[k] = o THEN c ELSE col[o]]

\* the body of the loop for one mob, measured at z_value
fill_one(col, mob, z_value, new_colors, pivots) ==
    LET i == first_above(pivots, z_value, 0)
    IN  IF z_value <= PyIndex(pivots, 0)
        THEN set_color(col, mob, Pure(PyIndex(new_colors, 0)), TRUE)
        ELSE IF z_value >= PyIndex(pivots, -1)
        THEN set_color(col, mob, Pure(PyIndex(new_colors, -1)), TRUE)
        ELSE IF i = -1 THEN col
        ELSE set_color(col, mob,
                 interpolate_color(PyIndex(new_colors, i - 1), PyIndex(new_colors, i),
                     z_value - PyIndex(pivots, i - 1),
                     PyIndex(pivots, i) - PyIndex(pivots, i - 1)),
                 FALSE)

\* the loop over self.family_members_with_points(), the first m of them
RECURSIVE fill_loop(_, _, _, _, _, _)
fill_loop(col, mobs, m, z, new_colors, pivots) ==
    IF m = 0 THEN col
    ELSE fill_one(fill_loop(col, mobs, m - 1, z, new_colors, pivots),
                  mobs[m], z[mobs[m]], new_colors, pivots)

\* self.set_fill_by_value(axes, colors): axes gives z_range and, through
\* point_to_coords(mob.get_midpoint())[2], the value z[mob] of each mob
SetFillByValue(self, z_range, z, arg) ==
    /\ self \in constructed
    /\ color' = fill_loop(color, family_members_with_points(self),
                          Len(family_members_with_points(self)), z,
                          fill_colors(arg), fill_pivots(arg, z_range))
    /\ last' = [op |-> "set_fill_by_value", self |-> self, status |-> "ok",
                z_range |-> z_range, z |-> z, colors |-> arg,
                pivots |-> fill_pivots(arg, z_range)]
    /\ UNCHANGED <<constructed, resolution, u_range, v_range, passed_uv_func, uv_surface,
                   submobjects, points, triangle_indices, im_coords>>

\* strictly ascending sequences of n of the values in vals
RECURSIVE Ascending(_, _)
Ascending(vals, n) ==
    IF n = 0 THEN {<<>>}
    ELSE {Append(s, v) : s \in Ascending(vals, n - 1), v \in vals} \cap
         {s \in UNION {[1 .. n -> vals]} : \A k \in 1 .. n - 1 : s[k] < s[k + 1]}

\* the colors arguments: the first n colours of the palette, bare or paired
\* with strictly ascending pivots
ColorArgs ==
    UNION {{[tuples |-> FALSE, colors |-> SubSeq(Palette, 1, n)]} \cup
           {[tuples |-> TRUE, colors |-> [k \in 1 .. n |-> <<Palette[k], piv[k]>>]] :
                piv \in Ascending(PivotValues, n)} : n \in 2 .. MaxColors}

\* parent.add(child)
add(parent, child) ==
    /\ parent \in constructed
    /\ child \in constructed
    /\ submobjects' = [submobjects EXCEPT ![parent] = Append(@, child)]
    /\ last' = [op |-> "add", self |-> parent, status |-> "ok"]
    /\ UNCHANGED <<constructed, resolution, u_range, v_range, passed_uv_func, uv_surface,
                   points, triangle_indices, im_coords, color>>

ConstructFillSource == ConstructSurface("S", "None", None, None, <<2, 2>>)

AddTarget ==
    /\ last.op = "OpenGLSurface"
    /\ last.self = "X"
    /\ add("S", "X")

\* one call, on S or on X, once X is built or once it is a child of S
FillByValue ==
    /\ \/ last.op = "OpenGLSurface" /\ last.self = "X"
       \/ last.op = "add"
    /\ \E self \in {"S", "X"} : \E z_range \in ZRanges : \E arg \in ColorArgs :
       \E zs \in ZValues : \E zx \in ZValues :
           SetFillByValue(self, z_range, [o \in Surfaces |-> IF o = "X" THEN zx ELSE zs], arg)

NextFill == ConstructFillSource \/ ConstructTarget \/ AddTarget \/ FillByValue

SpecFill == InitEmpty /\ [][NextFill]_vars

FillReturned == last.op = "set_fill_by_value" /\ last.status = "ok"

\* the least index (1-based) of a pivot above z
LeastAbove(p, z) == CHOOSE i \in DOMAIN p : p[i] > z /\ \A k \in DOMAIN p : p[k] > z => i <= k

----------------------------------------------------------------------------
(* get_partial_points_array: the rows and columns it reads *)

\* C11 as stated: whenever a reveal gets past the fast path with a non-empty
\* source array and at least one sample along the axis, lower_index and
\* upper_index are not negative, and the successors lower_index + 1 and
\* upper_index + 1 that the interpolations read lie in [0, max_index].
PartialReadsInsideGrid ==
    (/\ last.op = "pointwise_become_partial"
     /\ ~fast_path(last.a, last.b)
     /\ Len(last.src_points) > 0
     /\ resolution[last.src][last.axis + 1] >= 1) =>
        LET max_index == resolution[last.src][last.axis + 1] - 1
        IN  /\ LowerOf(last).index >= 0
            /\ UpperOf(last).index >= 0
            /\ LowerOf(last).index + 1 \in 0 .. max_index
            /\ UpperOf(last).index + 1 \in 0 .. max_index
            /\ last.status # "IndexError"

============================================================================
